---- MODULE Spec2Model ----
(***************************************************************************)
(* Model of pyproject-fmt's command line adapter (src/pyproject_fmt/cli.py) *)
(* and of the formatting engine it drives.                                  *)
(*                                                                          *)
(* Spec     : one run of cli_args(args) followed by the evaluation of the   *)
(*            namespace's configs property and one format pass per Config.  *)
(*            The argument list is consumed the way argparse consumes it:   *)
(*            one option (with its value) or one chunk of positionals per   *)
(*            step, each value converted by the argument's type= callable.  *)
(* FmtSpec  : the formatting engine as a pure function of (text, Config),   *)
(*            applied twice to documents drawn from a bounded set.          *)
(***************************************************************************)
EXTENDS Integers, Sequences, FiniteSets, TLC

VARIABLES
    pc,                       \* position of the run: "parse", "convert", "exit", "version", "returned", "configs", "formatted"
    ns,                       \* the PyProjectFmtNamespace being filled by parse_args
    seen_actions,             \* argparse: dests of the actions taken so far
    seen_non_default_actions, \* argparse: dests checked against the mutually exclusive group
    arg_strings,              \* argparse: the chunk of strings matched by the positional "inputs"
    values,                   \* argparse: the converted values of the chunk so far
    path,                     \* pyproject_toml_path_creator: its local variable path at its last return or raise
    err,                      \* message of the error parse_args exited with, "" when none
    extras,                   \* argparse: positional strings left over after "inputs" was consumed
    reads,                    \* paths whose text has been read, in order
    configs,                  \* the value of the configs property
    outputs,                  \* format results, one per Config
    fpc,                      \* FmtSpec: "in", "once", "twice"
    doc,                      \* FmtSpec: the input text
    fcfg,                     \* FmtSpec: the Config
    first,                    \* FmtSpec: format(doc, fcfg)
    second                    \* FmtSpec: format(first.output_text, fcfg)

cliVars == <<pc, ns, seen_actions, seen_non_default_actions, arg_strings, values,
             path, err, extras, reads, configs, outputs>>
fmtVars == <<fpc, doc, fcfg, first, second>>
vars == <<pc, ns, seen_actions, seen_non_default_actions, arg_strings, values,
          path, err, extras, reads, configs, outputs, fpc, doc, fcfg, first, second>>

(***************************************************************************)
(* Bounds                                                                  *)
(***************************************************************************)
MaxInputs == 2
MaxIntLen == 2
MaxLines == 3

\* Non-empty sequences over S of length at most n.
SeqsUpTo(S, n) == UNION {[1..k -> S] : k \in 1..n}

(***************************************************************************)
(* Text conversions used as argparse type= callables                       *)
(***************************************************************************)
Digits == {"0", "1", "2", "3", "4", "5", "6", "7", "8", "9"}

DigitVal(c) ==
    CASE c = "0" -> 0 [] c = "1" -> 1 [] c = "2" -> 2 [] c = "3" -> 3 [] c = "4" -> 4
      [] c = "5" -> 5 [] c = "6" -> 6 [] c = "7" -> 7 [] c = "8" -> 8 [] c = "9" -> 9

RECURSIVE DecimalValue(_)
DecimalValue(s) ==
    IF s = <<>> THEN 0
    ELSE 10 * DecimalValue(SubSeq(s, 1, Len(s) - 1)) + DigitVal(s[Len(s)])

AllDigits(s) == s # <<>> /\ \A i \in 1..Len(s) : s[i] \in Digits

\* int(s): an optional sign followed by decimal digits; anything else raises ValueError.
IntOk(s) ==
    IF s # <<>> /\ s[1] = "-" THEN AllDigits(Tail(s)) ELSE AllDigits(s)

IntValue(s) ==
    IF s[1] = "-" THEN 0 - DecimalValue(Tail(s)) ELSE DecimalValue(s)

\* Split s at the "." characters.
RECURSIVE SplitDots(_)
SplitDots(s) ==
    IF \A i \in 1..Len(s) : s[i] # "." THEN <<s>>
    ELSE LET k == CHOOSE i \in 1..Len(s) : s[i] = "." /\ \A j \in 1..(i - 1) : s[j] # "."
         IN <<SubSeq(s, 1, k - 1)>> \o SplitDots(SubSeq(s, k + 1, Len(s)))

\* Version(s), release segment only: dot separated decimal numbers; anything else raises InvalidVersion.
VersionOk(s) == \A i \in 1..Len(SplitDots(s)) : AllDigits(SplitDots(s)[i])

VersionValue(s) == [i \in 1..Len(SplitDots(s)) |-> DecimalValue(SplitDots(s)[i])]

\* argparse: a string that starts with "-" is an option string unless it reads as a negative number.
LooksLikeOption(s) ==
    /\ Len(s) > 1
    /\ s[1] = "-"
    /\ ~AllDigits(Tail(s))

(***************************************************************************)
(* Defaults imported from .config                                          *)
(***************************************************************************)
DEFAULT_INDENT == 2
DEFAULT_MAX_SUPPORTED_PYTHON == <<3, 13>>

(***************************************************************************)
(* The file system the process runs in.  A path is the sequence of its     *)
(* components; an absolute path starts with "/".                            *)
(***************************************************************************)
Cwd == <<"/", "w">>

Hdr(name) ==
    [t |-> "table", table |-> name, pkg |-> <<>>, extras |-> <<>>, version |-> <<>>, indent |-> 0]

Dep(pkg, ex, ver, ind) ==
    [t |-> "dep", table |-> "", pkg |-> pkg, extras |-> ex, version |-> ver, indent |-> ind]

TextA == <<Hdr("project"), Dep(<<"P", "_", "a">>, <<"b", "a">>, <<1, 0, 0>>, 4),
           Dep(<<"b">>, <<>>, <<1, 2, 0>>, 4)>>
TextB == <<Hdr("project"), Dep(<<"b">>, <<>>, <<1, 0, 1>>, 2), Dep(<<"c">>, <<>>, <<0, 0, 0>>, 2)>>
TextD == <<Hdr("build-system"), Dep(<<"c">>, <<"a">>, <<2, 0>>, 2)>>

Absent == [kind |-> "absent", r |-> FALSE, w |-> FALSE, text |-> <<>>]
File(r, w, text) == [kind |-> "file", r |-> r, w |-> w, text |-> text]
Dir == [kind |-> "dir", r |-> TRUE, w |-> TRUE, text |-> <<>>]
Other(r, w) == [kind |-> "other", r |-> r, w |-> w, text |-> <<>>]

Node(p) ==
    CASE p = <<"/", "w">> -> Dir
      [] p = <<"/", "w", "a.toml">> -> File(TRUE, TRUE, TextA)
      [] p = <<"/", "w", "b.toml">> -> File(TRUE, TRUE, TextB)
      [] p = <<"/", "w", "ro.toml">> -> File(TRUE, FALSE, TextA)
      [] p = <<"/", "w", "nn.toml">> -> File(FALSE, FALSE, TextA)
      [] p = <<"/", "w", "fifo">> -> Other(TRUE, TRUE)
      [] p = <<"/", "w", "d">> -> Dir
      [] p = <<"/", "w", "d", "pyproject.toml">> -> File(TRUE, TRUE, TextD)
      [] p = <<"/", "w", "e">> -> Dir
      [] p = <<"/", "w", "f">> -> Dir
      [] p = <<"/", "w", "f", "pyproject.toml">> -> Dir
      [] OTHER -> Absent

Exists(p) == Node(p).kind # "absent"
IsDir(p) == Node(p).kind = "dir"
IsFile(p) == Node(p).kind = "file"
AccessR(p) == Node(p).r
AccessW(p) == Node(p).w
ReadText(p) == Node(p).text

\* The strings given as positional arguments.
PathArgs ==
    {<<"a.toml">>, <<"/", "w", "b.toml">>, <<"ro.toml">>, <<"nn.toml">>, <<"fifo">>,
     <<"d">>, <<"e">>, <<"f">>, <<"missing.toml">>}

(***************************************************************************)
(* pyproject_toml_path_creator                                             *)
(***************************************************************************)
Absolute(argument) == IF argument[1] = "/" THEN argument ELSE Cwd \o argument

\* Mutant of ResolvedPath: a directory argument is not completed with the default filename.
ResolvedPathNoDefault(argument) == Absolute(argument)

ResolvedPath(argument) ==
    IF IsDir(Absolute(argument)) THEN Append(Absolute(argument), "pyproject.toml")
    ELSE Absolute(argument)

\* Mutant of PathError: the os.W_OK check is missing.
PathErrorNoWriteCheck(p) ==
    IF ~Exists(p) THEN "path does not exist"
    ELSE IF ~IsFile(p) THEN "path is not a file"
    ELSE IF ~AccessR(p) THEN "cannot read path"
    ELSE ""

\* Mutant of PathError: the os.W_OK check comes before the os.R_OK check.
PathErrorWriteFirst(p) ==
    IF ~Exists(p) THEN "path does not exist"
    ELSE IF ~IsFile(p) THEN "path is not a file"
    ELSE IF ~AccessW(p) THEN "cannot write path"
    ELSE IF ~AccessR(p) THEN "cannot read path"
    ELSE ""

PathError(p) ==
    IF ~Exists(p) THEN "path does not exist"
    ELSE IF ~IsFile(p) THEN "path is not a file"
    ELSE IF ~AccessR(p) THEN "cannot read path"
    ELSE IF ~AccessW(p) THEN "cannot write path"
    ELSE ""

\* path: the local variable path when the function returns or raises; msg: "" when it returns.
pyproject_toml_path_creator(argument) ==
    [path |-> ResolvedPath(argument), msg |-> PathError(ResolvedPath(argument))]

(***************************************************************************)
(* The formatting engine.  A text is a sequence of lines: a table header,  *)
(* or one element of the dependency array of the table above it.           *)
(***************************************************************************)
\* parse: the tables of a text, each with the element lines that follow its header.
BodyLen(rest) ==
    IF \E i \in 1..Len(rest) : rest[i].t = "table"
    THEN (CHOOSE i \in 1..Len(rest) :
              rest[i].t = "table" /\ \A j \in 1..(i - 1) : rest[j].t # "table") - 1
    ELSE Len(rest)

RECURSIVE Parse(_)
Parse(text) ==
    IF text = <<>> THEN <<>>
    ELSE LET rest == Tail(text)
             n == BodyLen(rest)
         IN <<[name |-> text[1].table, body |-> SubSeq(rest, 1, n)]>>
                \o Parse(SubSeq(rest, n + 1, Len(rest)))

RECURSIVE Serialize(_)
Serialize(d) ==
    IF d = <<>> THEN <<>>
    ELSE <<Hdr(d[1].name)>> \o d[1].body \o Serialize(Tail(d))

\* A text parses when it is empty or starts with a table header.
ValidText(text) == text = <<>> \/ text[1].t = "table"

\* Table Reorderer: known tables by canonical rank, unknown tables last, each group in its original order.
TableRank(name) ==
    CASE name = "project" -> 1
      [] name = "build-system" -> 2
      [] name = "tool.x" -> 3
      [] OTHER -> 4

TablesOfRank(d, r) ==
    LET Has(tbl) == TableRank(tbl.name) = r IN SelectSeq(d, Has)

ReorderTables(d) ==
    TablesOfRank(d, 1) \o TablesOfRank(d, 2) \o TablesOfRank(d, 3) \o TablesOfRank(d, 4)

\* Dependency Normalizer, step 2: package name casing and separator style.
CanonChar(c) ==
    CASE c = "P" -> "p"
      [] c = "_" -> "-"
      [] OTHER -> c

CanonName(pkg) == [i \in 1..Len(pkg) |-> CanonChar(pkg[i])]

\* Step 3: extras sorted alphabetically, deduplicated.
ExtraOrder == <<"a", "b", "c">>

SortExtras(ex) ==
    LET Has(x) == \E i \in 1..Len(ex) : ex[i] = x IN SelectSeq(ExtraOrder, Has)

\* Mutant of TrimVersion: only the last trailing zero is removed.
TrimVersionOnce(v) ==
    IF Len(v) > 1 /\ v[Len(v)] = 0 THEN SubSeq(v, 1, Len(v) - 1) ELSE v

\* Step 4: trailing zero components removed, down to one component.
RECURSIVE TrimVersion(_)
TrimVersion(v) ==
    IF Len(v) > 1 /\ v[Len(v)] = 0 THEN TrimVersion(SubSeq(v, 1, Len(v) - 1)) ELSE v

NormalizeDep(line, keep_full_version) ==
    [line EXCEPT !.pkg = CanonName(@),
                 !.extras = SortExtras(@),
                 !.version = IF keep_full_version THEN @ ELSE TrimVersion(@)]

IsDependencyTable(name) == name \in {"project", "build-system"}

NormalizeTable(tbl, keep_full_version) ==
    IF IsDependencyTable(tbl.name)
    THEN [tbl EXCEPT !.body = [i \in 1..Len(@) |-> NormalizeDep(@[i], keep_full_version)]]
    ELSE tbl

\* Pretty-Printer: every element on its own line, indented by indent.
PrettyTable(tbl, indent) ==
    [tbl EXCEPT !.body = [i \in 1..Len(@) |-> [@[i] EXCEPT !.indent = indent]]]

\* Format Orchestrator: parse, reorder, normalize, pretty-print, serialize.
FormatText(text, cfg) ==
    LET d == ReorderTables(Parse(text))
    IN Serialize([i \in 1..Len(d) |->
                    PrettyTable(NormalizeTable(d[i], cfg.keep_full_version), cfg.indent)])

Format(text, cfg) ==
    [output_text |-> FormatText(text, cfg), changed |-> FormatText(text, cfg) # text]

(***************************************************************************)
(* cli_args: parse_args over the parser of _build_cli                      *)
(***************************************************************************)
NoResult == [output_text |-> <<>>, changed |-> FALSE]

NoConfig ==
    [pyproject_toml |-> <<>>, toml |-> <<>>, indent |-> DEFAULT_INDENT,
     keep_full_version |-> FALSE, max_supported_python |-> DEFAULT_MAX_SUPPORTED_PYTHON]

\* The values --indent is given: every string over IntAlphabet up to MaxIntLen characters.
IntAlphabet == {"-", "1", "x"}
IndentArgs == SeqsUpTo(IntAlphabet, MaxIntLen)

\* The values --max-supported-python is given.
VersionArgs == {<<"3", ".", "1", "2">>, <<"3">>, <<"3", ".">>, <<"x">>, <<"-", "3">>, <<"-", "x">>}

\* The positional strings given after "inputs" was matched.
ExtraArgs == {<<"a.toml">>, <<"missing.toml">>}
MaxExtras == 1

\* <<>> stands for the end of the argument list (no string follows the option).
NoArg == <<>>

FmtIdle ==
    /\ fpc = "off"
    /\ doc = <<>>
    /\ fcfg = NoConfig
    /\ first = NoResult
    /\ second = NoResult

\* The namespace after parse_known_args set every default.
Init ==
    /\ pc = "parse"
    /\ ns = [inputs |-> <<>>, stdout |-> FALSE, check |-> FALSE, keep_full_version |-> FALSE,
             indent |-> DEFAULT_INDENT, max_supported_python |-> DEFAULT_MAX_SUPPORTED_PYTHON]
    /\ seen_actions = {}
    /\ seen_non_default_actions = {}
    /\ arg_strings = <<>>
    /\ values = <<>>
    /\ path = <<>>
    /\ err = ""
    /\ extras = <<>>
    /\ reads = <<>>
    /\ configs = <<>>
    /\ outputs = <<>>
    /\ FmtIdle

\* parser.error(msg): the message is printed and the process exits with status 2.
Error(msg) ==
    /\ pc' = "exit"
    /\ err' = msg

\* -s / --stdout, member of the mutually exclusive group.
OptStdout ==
    /\ pc = "parse"
    /\ seen_actions' = seen_actions \cup {"stdout"}
    /\ seen_non_default_actions' = seen_non_default_actions \cup {"stdout"}
    /\ IF "check" \in seen_non_default_actions
       THEN Error("not allowed with argument --check") /\ ns' = ns
       ELSE ns' = [ns EXCEPT !.stdout = TRUE] /\ UNCHANGED <<pc, err>>
    /\ UNCHANGED <<arg_strings, values, path, extras, reads, configs, outputs>>
    /\ UNCHANGED fmtVars

\* Mutant of OptCheck: --check is added to the parser, not to the mutually exclusive group.
OptCheckUngrouped ==
    /\ pc = "parse"
    /\ seen_actions' = seen_actions \cup {"check"}
    /\ seen_non_default_actions' = seen_non_default_actions \cup {"check"}
    /\ ns' = [ns EXCEPT !.check = TRUE]
    /\ UNCHANGED <<pc, err, arg_strings, values, path, extras, reads, configs, outputs>>
    /\ UNCHANGED fmtVars

\* --check, member of the mutually exclusive group.
OptCheck ==
    /\ pc = "parse"
    /\ seen_actions' = seen_actions \cup {"check"}
    /\ seen_non_default_actions' = seen_non_default_actions \cup {"check"}
    /\ IF "stdout" \in seen_non_default_actions
       THEN Error("not allowed with argument -s/--stdout") /\ ns' = ns
       ELSE ns' = [ns EXCEPT !.check = TRUE] /\ UNCHANGED <<pc, err>>
    /\ UNCHANGED <<arg_strings, values, path, extras, reads, configs, outputs>>
    /\ UNCHANGED fmtVars

\* --keep-full-version
OptKeepFullVersion ==
    /\ pc = "parse"
    /\ seen_actions' = seen_actions \cup {"keep_full_version"}
    /\ ns' = [ns EXCEPT !.keep_full_version = TRUE]
    /\ UNCHANGED <<pc, err, seen_non_default_actions, arg_strings, values, path, extras,
                   reads, configs, outputs>>
    /\ UNCHANGED fmtVars

\* --indent <s>, type=int
OptIndent ==
    \E s \in IndentArgs \cup {NoArg} :
        /\ pc = "parse"
        /\ IF s = NoArg \/ LooksLikeOption(s)
           THEN Error("expected one argument") /\ UNCHANGED <<ns, seen_actions>>
           ELSE /\ seen_actions' = seen_actions \cup {"indent"}
                /\ IF IntOk(s)
                   THEN ns' = [ns EXCEPT !.indent = IntValue(s)] /\ UNCHANGED <<pc, err>>
                   ELSE Error("invalid int value") /\ ns' = ns
        /\ UNCHANGED <<seen_non_default_actions, arg_strings, values, path, extras, reads,
                       configs, outputs>>
        /\ UNCHANGED fmtVars

\* --max-supported-python <s>, type=Version
OptMaxSupportedPython ==
    \E s \in VersionArgs \cup {NoArg} :
        /\ pc = "parse"
        /\ IF s = NoArg \/ LooksLikeOption(s)
           THEN Error("expected one argument") /\ UNCHANGED <<ns, seen_actions>>
           ELSE /\ seen_actions' = seen_actions \cup {"max_supported_python"}
                /\ IF VersionOk(s)
                   THEN /\ ns' = [ns EXCEPT !.max_supported_python = VersionValue(s)]
                        /\ UNCHANGED <<pc, err>>
                   ELSE Error("invalid Version value") /\ ns' = ns
        /\ UNCHANGED <<seen_non_default_actions, arg_strings, values, path, extras, reads,
                       configs, outputs>>
        /\ UNCHANGED fmtVars

\* -V / --version: the version is printed and the process exits with status 0.
OptVersion ==
    /\ pc = "parse"
    /\ pc' = "version"
    /\ seen_actions' = seen_actions \cup {"version"}
    /\ UNCHANGED <<ns, err, seen_non_default_actions, arg_strings, values, path, extras,
                   reads, configs, outputs>>
    /\ UNCHANGED fmtVars

\* inputs, nargs="+": the first run of positional strings is matched as one chunk.
TakeInputs ==
    \E chunk \in SeqsUpTo(PathArgs, MaxInputs) :
        /\ pc = "parse"
        /\ arg_strings = <<>>
        /\ arg_strings' = chunk
        /\ values' = <<>>
        /\ seen_actions' = seen_actions \cup {"inputs"}
        /\ pc' = "convert"
        /\ UNCHANGED <<ns, err, seen_non_default_actions, path, extras, reads, configs, outputs>>
        /\ UNCHANGED fmtVars

\* Mutant of ConvertInput: a string that fails validation is kept and the run goes on.
ConvertInputGoesOn ==
    /\ pc = "convert"
    /\ Len(values) < Len(arg_strings)
    /\ LET res == pyproject_toml_path_creator(arg_strings[Len(values) + 1])
       IN /\ path' = res.path
          /\ values' = Append(values, res.path)
    /\ UNCHANGED <<pc, err, ns, seen_actions, seen_non_default_actions, arg_strings, extras,
                   reads, configs, outputs>>
    /\ UNCHANGED fmtVars

\* [self._get_value(action, v) for v in arg_strings]: the next string of the chunk is
\* converted by pyproject_toml_path_creator; its ArgumentTypeError ends the run.
ConvertInput ==
    /\ pc = "convert"
    /\ Len(values) < Len(arg_strings)
    /\ LET res == pyproject_toml_path_creator(arg_strings[Len(values) + 1])
       IN /\ path' = res.path
          /\ IF res.msg = ""
             THEN values' = Append(values, res.path) /\ UNCHANGED <<pc, err>>
             ELSE Error(res.msg) /\ values' = values
    /\ UNCHANGED <<ns, seen_actions, seen_non_default_actions, arg_strings, extras, reads,
                   configs, outputs>>
    /\ UNCHANGED fmtVars

\* setattr(namespace, "inputs", values) once the whole chunk converted.
StoreInputs ==
    /\ pc = "convert"
    /\ Len(values) = Len(arg_strings)
    /\ ns' = [ns EXCEPT !.inputs = values]
    /\ pc' = "parse"
    /\ UNCHANGED <<seen_actions, seen_non_default_actions, arg_strings, values, path, err,
                   extras, reads, configs, outputs>>
    /\ UNCHANGED fmtVars

\* A positional string met after "inputs" was matched is left over.
ExtraArg ==
    \E a \in ExtraArgs :
        /\ pc = "parse"
        /\ arg_strings # <<>>
        /\ Len(extras) < MaxExtras
        /\ extras' = Append(extras, a)
        /\ UNCHANGED <<pc, ns, seen_actions, seen_non_default_actions, arg_strings, values,
                       path, err, reads, configs, outputs>>
        /\ UNCHANGED fmtVars

\* End of the argument list: required arguments, then left-over strings; cli_args returns result.
Finish ==
    /\ pc = "parse"
    /\ IF "inputs" \notin seen_actions
       THEN Error("the following arguments are required: inputs")
       ELSE IF extras # <<>>
       THEN Error("unrecognized arguments")
       ELSE pc' = "returned" /\ err' = err
    /\ UNCHANGED <<ns, seen_actions, seen_non_default_actions, arg_strings, values, path,
                   extras, reads, configs, outputs>>
    /\ UNCHANGED fmtVars

(***************************************************************************)
(* PyProjectFmtNamespace.configs                                           *)
(***************************************************************************)
\* Mutant of ConfigOf: keep_full_version is not passed on to the Config.
ConfigOfDropsKeep(self, toml) ==
    [pyproject_toml |-> toml,
     toml |-> ReadText(toml),
     indent |-> self.indent,
     keep_full_version |-> FALSE,
     max_supported_python |-> self.max_supported_python]

ConfigOf(self, toml) ==
    [pyproject_toml |-> toml,
     toml |-> ReadText(toml),
     indent |-> self.indent,
     keep_full_version |-> self.keep_full_version,
     max_supported_python |-> self.max_supported_python]

\* Mutant of ConfigsOf: every Config is given the text of the first input.
ConfigsOfFirstText(self) ==
    [i \in 1..Len(self.inputs) |->
        [pyproject_toml |-> self.inputs[i],
         toml |-> ReadText(self.inputs[1]),
         indent |-> self.indent,
         keep_full_version |-> self.keep_full_version,
         max_supported_python |-> self.max_supported_python]]

ConfigsOf(self) == [i \in 1..Len(self.inputs) |-> ConfigOf(self, self.inputs[i])]

\* Mutant of Configs: the property is evaluated although parse_args exited with an error.
ConfigsAfterError ==
    /\ pc \in {"returned", "exit"}
    /\ configs' = [i \in 1..Len(values) |-> ConfigOf(ns, values[i])]
    /\ reads' = reads \o values
    /\ pc' = "configs"
    /\ UNCHANGED <<ns, seen_actions, seen_non_default_actions, arg_strings, values, path,
                   err, extras, outputs>>
    /\ UNCHANGED fmtVars

\* The caller evaluates result.configs on the namespace cli_args returned.
Configs ==
    /\ pc = "returned"
    /\ configs' = ConfigsOf(ns)
    /\ reads' = reads \o ns.inputs
    /\ pc' = "configs"
    /\ UNCHANGED <<ns, seen_actions, seen_non_default_actions, arg_strings, values, path,
                   err, extras, outputs>>
    /\ UNCHANGED fmtVars

\* One format pass per Config.
Run ==
    /\ pc = "configs"
    /\ outputs' = [i \in 1..Len(configs) |-> Format(configs[i].toml, configs[i])]
    /\ pc' = "formatted"
    /\ UNCHANGED <<ns, seen_actions, seen_non_default_actions, arg_strings, values, path,
                   err, extras, reads, configs>>
    /\ UNCHANGED fmtVars

Next ==
    \/ OptStdout
    \/ OptCheck
    \/ OptKeepFullVersion
    \/ OptIndent
    \/ OptMaxSupportedPython
    \/ OptVersion
    \/ TakeInputs
    \/ ConvertInput
    \/ StoreInputs
    \/ ExtraArg
    \/ Finish
    \/ Configs
    \/ Run

Spec == Init /\ [][Next]_vars

(***************************************************************************)
(* The engine as a pure function: FmtSpec                                  *)
(***************************************************************************)
TableNames == {"project", "build-system", "tool.x", "zzz"}

DepLines ==
    {Dep(<<"P", "_", "a">>, <<"b", "a">>, <<1, 0, 0>>, 4),
     Dep(<<"b">>, <<"a", "a">>, <<1, 2, 0>>, 0),
     Dep(<<"b">>, <<>>, <<1, 0, 1>>, 2),
     Dep(<<"c">>, <<"c", "a", "b">>, <<0, 0, 0>>, 2),
     Dep(<<"p", "-", "a">>, <<"a", "b">>, <<1>>, 2)}

Lines == {Hdr(n) : n \in TableNames} \cup DepLines

Docs == {<<>>} \cup {t \in SeqsUpTo(Lines, MaxLines) : ValidText(t)}

FmtConfigs ==
    {[NoConfig EXCEPT !.indent = i, !.keep_full_version = k] : i \in {0, 2, 4}, k \in BOOLEAN}

FmtInit ==
    /\ pc = "idle"
    /\ ns = [inputs |-> <<>>, stdout |-> FALSE, check |-> FALSE, keep_full_version |-> FALSE,
             indent |-> DEFAULT_INDENT, max_supported_python |-> DEFAULT_MAX_SUPPORTED_PYTHON]
    /\ seen_actions = {}
    /\ seen_non_default_actions = {}
    /\ arg_strings = <<>>
    /\ values = <<>>
    /\ path = <<>>
    /\ err = ""
    /\ extras = <<>>
    /\ reads = <<>>
    /\ configs = <<>>
    /\ outputs = <<>>
    /\ fpc = "in"
    /\ doc \in Docs
    /\ fcfg \in {[c EXCEPT !.toml = doc] : c \in FmtConfigs}
    /\ first = NoResult
    /\ second = NoResult

FormatFirst ==
    /\ fpc = "in"
    /\ first' = Format(doc, fcfg)
    /\ fpc' = "once"
    /\ UNCHANGED <<doc, fcfg, second>>
    /\ UNCHANGED cliVars

FormatSecond ==
    /\ fpc = "once"
    /\ second' = Format(first.output_text, fcfg)
    /\ fpc' = "twice"
    /\ UNCHANGED <<doc, fcfg, first>>
    /\ UNCHANGED cliVars

FmtNext ==
    \/ FormatFirst
    \/ FormatSecond

FmtSpec == FmtInit /\ [][FmtNext]_vars

(***************************************************************************)
(* Properties                                                              *)
(***************************************************************************)
Returned == pc \in {"returned", "configs", "formatted"}

PathErrors ==
    {"path does not exist", "path is not a file", "cannot read path", "cannot write path"}

\* The file at p can be formatted: it exists, is a regular file, readable and writable.
Formattable(p) ==
    /\ Node(p).kind # "absent"
    /\ Node(p).kind = "file"
    /\ Node(p).r
    /\ Node(p).w

\* The path an argument string stands for: <directory>/pyproject.toml for a directory,
\* the absolute form of the argument otherwise.
AbsoluteForm(a) == IF a[1] = "/" THEN a ELSE <<"/", "w">> \o a

ExpectedPath(a) ==
    IF Node(AbsoluteForm(a)).kind = "dir"
    THEN AbsoluteForm(a) \o <<"pyproject.toml">>
    ELSE AbsoluteForm(a)

\* The string pyproject_toml_path_creator was last called with.
LastArgument ==
    IF err \in PathErrors THEN arg_strings[Len(values) + 1] ELSE arg_strings[Len(values)]

\* o is v without its trailing zero components, at least one component kept.
TrimmedTo(v, o) ==
    /\ Len(o) >= 1
    /\ Len(o) <= Len(v)
    /\ o = SubSeq(v, 1, Len(o))
    /\ \A j \in (Len(o) + 1)..Len(v) : v[j] = 0
    /\ (Len(o) = 1 \/ o[Len(o)] # 0)

\* C1: formatting is idempotent: formatting the output of format(D, C) again with the
\* same C reports changed = false and gives the same text.
C1_Idempotent ==
    fpc = "twice" =>
        /\ second.changed = FALSE
        /\ second.output_text = first.output_text

\* A document whose first pass reordered its tables and trimmed a version.
C1_Witness ==
    /\ fpc = "twice"
    /\ first.changed
    /\ Len(doc) = 3
    /\ doc[1].table = "zzz"
    /\ first.output_text[1].table = "project"
    /\ \E k \in 1..3 : doc[k].version = <<1, 0, 0>>
    /\ ~fcfg.keep_full_version

\* C2: without --keep-full-version every release number loses its trailing zero
\* components down to one component (1.0.0 -> 1, 1.2.0 -> 1.2, 1.0.1 and 0.0.0 -> 0
\* as stated); with --keep-full-version every Config has keep_full_version true and
\* every version is left as it is.
C2_VersionTrimming ==
    pc = "formatted" =>
        \A i \in 1..Len(outputs) :
            LET inp == configs[i].toml
                out == outputs[i].output_text
                kept == "keep_full_version" \in seen_actions
            IN /\ configs[i].keep_full_version = kept
               /\ Len(out) = Len(inp)
               /\ \A k \in 1..Len(inp) :
                    inp[k].t = "dep" =>
                        IF kept
                        THEN out[k].version = inp[k].version
                        ELSE /\ TrimmedTo(inp[k].version, out[k].version)
                             /\ (inp[k].version = <<1, 0, 0>> => out[k].version = <<1>>)
                             /\ (inp[k].version = <<1, 2, 0>> => out[k].version = <<1, 2>>)
                             /\ (inp[k].version = <<1, 0, 1>> => out[k].version = <<1, 0, 1>>)
                             /\ (inp[k].version = <<0, 0, 0>> => out[k].version = <<0>>)

\* Both files with the four versions were formatted without --keep-full-version.
C2_Witness ==
    /\ pc = "formatted"
    /\ "keep_full_version" \notin seen_actions
    /\ Len(outputs) = 2
    /\ configs[1].toml[2].version = <<1, 0, 0>>
    /\ configs[1].toml[3].version = <<1, 2, 0>>
    /\ configs[2].toml[2].version = <<1, 0, 1>>
    /\ configs[2].toml[3].version = <<0, 0, 0>>
    /\ outputs[1].output_text[2].version = <<1>>
    /\ outputs[2].output_text[3].version = <<0>>

\* C3: no accepted argument list gives a namespace with stdout and check both true; a
\* list with both -s/--stdout and --check is rejected; with neither, both are false.
C3_MutuallyExclusive ==
    /\ Returned => ~(ns.stdout /\ ns.check)
    /\ {"stdout", "check"} \subseteq seen_actions =>
          pc = "exit" /\ err \in {"not allowed with argument --check",
                                  "not allowed with argument -s/--stdout"}
    /\ (Returned /\ "stdout" \notin seen_actions /\ "check" \notin seen_actions) =>
          (~ns.stdout /\ ~ns.check)

\* --check was met after -s and the run ended in an error.
C3_Witness ==
    /\ pc = "exit"
    /\ err = "not allowed with argument -s/--stdout"
    /\ {"stdout", "check"} \subseteq seen_actions

\* C4: every path in the inputs of a returned namespace existed, was a regular file,
\* readable and writable when validated; a path failing one check raised an error and
\* is in no list of inputs; at least one input is required.
C4_InputsValidated ==
    /\ \A i \in 1..Len(values) : Formattable(values[i])
    /\ \A i \in 1..Len(ns.inputs) : Formattable(ns.inputs[i])
    /\ (path # <<>> /\ ~Formattable(path)) => (pc = "exit" /\ err \in PathErrors)
    /\ Returned => Len(ns.inputs) >= 1

\* Two inputs were validated and cli_args returned them.
C4_Witness ==
    /\ pc = "returned"
    /\ Len(ns.inputs) = 2
    /\ ns.inputs[1] # ns.inputs[2]

\* C5: no file is read before the whole argument list was accepted: after any error exit
\* nothing was read, and whatever was read was read after cli_args returned without
\* error, from validated inputs.
C5_NoReadBeforeAccepted ==
    /\ pc \in {"parse", "convert", "exit", "version", "returned"} =>
          (reads = <<>> /\ configs = <<>>)
    /\ pc \in {"configs", "formatted"} =>
          /\ err = ""
          /\ reads = ns.inputs
          /\ \A i \in 1..Len(reads) : Formattable(reads[i])

\* Valid inputs were stored, then --indent was given a non-integer: nothing was read.
C5_Witness ==
    /\ pc = "exit"
    /\ err = "invalid int value"
    /\ Len(ns.inputs) = 2
    /\ reads = <<>>

\* C6 as stated: an input error leaves the other, valid inputs processed: each still
\* produces a Config.
C6_OtherInputsProcessed ==
    (pc = "exit" /\ err \in PathErrors) =>
        \A i \in 1..Len(arg_strings) :
            Formattable(ExpectedPath(arg_strings[i])) =>
                \E j \in 1..Len(configs) : configs[j].pyproject_toml = ExpectedPath(arg_strings[i])

\* C6 as amended: an input error aborts the whole invocation: when one of the inputs
\* fails validation the run ends in that error, cli_args returns no namespace and no
\* input, valid or not, produces a Config.
C6_InputErrorAborts ==
    (\E i \in 1..Len(arg_strings) : ~Formattable(ExpectedPath(arg_strings[i]))) =>
        /\ pc \in {"convert", "exit"}
        /\ ns.inputs = <<>>
        /\ configs = <<>>
        /\ reads = <<>>
        /\ Len(values) = Len(arg_strings) => pc = "exit"

\* The first of two inputs was valid, the second failed: the run ended in its error.
C6_Witness ==
    /\ pc = "exit"
    /\ err \in PathErrors
    /\ Len(arg_strings) = 2
    /\ Len(values) = 1
    /\ Formattable(ExpectedPath(arg_strings[1]))
    /\ configs = <<>>

\* C7 as stated: the indent of a returned namespace, and of every Config, is >= 0.
C7_IndentNonNegative ==
    /\ Returned => ns.indent >= 0
    /\ \A i \in 1..Len(configs) : configs[i].indent >= 0

\* C8: a directory argument is validated and returned as <directory>/pyproject.toml,
\* never as the directory; when that file is absent the error is "path does not exist";
\* any other argument is returned in its absolute form.
C8_DirectoryDefault ==
    /\ \A i \in 1..Len(values) :
          /\ values[i] = ExpectedPath(arg_strings[i])
          /\ Node(values[i]).kind # "dir"
    /\ path # <<>> =>
          /\ path = ExpectedPath(LastArgument)
          /\ (Node(AbsoluteForm(LastArgument)).kind = "dir"
                /\ Node(AbsoluteForm(LastArgument) \o <<"pyproject.toml">>).kind = "absent")
             => (pc = "exit" /\ err = "path does not exist")

\* A directory without pyproject.toml was given.
C8_Witness ==
    /\ pc = "exit"
    /\ err = "path does not exist"
    /\ Node(AbsoluteForm(LastArgument)).kind = "dir"
    /\ path = AbsoluteForm(LastArgument) \o <<"pyproject.toml">>

\* C9: the error is that of the first failing check in the order exists, is a regular
\* file, readable, writable.
C9_FirstFailingCheck ==
    (pc = "exit" /\ err \in PathErrors) =>
        /\ err = "path does not exist" <=> Node(path).kind = "absent"
        /\ err = "path is not a file" <=> Node(path).kind \in {"dir", "other"}
        /\ err = "cannot read path" <=> (Node(path).kind = "file" /\ ~Node(path).r)
        /\ err = "cannot write path" <=>
              (Node(path).kind = "file" /\ Node(path).r /\ ~Node(path).w)

\* A regular file that is neither readable nor writable is reported as unreadable.
C9_Witness ==
    /\ pc = "exit"
    /\ err = "cannot read path"
    /\ Node(path).kind = "file"
    /\ ~Node(path).r
    /\ ~Node(path).w

\* C10: configs holds one Config per input, in input order, each with its own path and
\* its own file's text, all with the namespace's indent, keep_full_version and
\* max_supported_python.
C10_OneConfigPerInput ==
    pc \in {"configs", "formatted"} =>
        /\ Len(configs) = Len(ns.inputs)
        /\ \A i \in 1..Len(configs) :
              /\ configs[i].pyproject_toml = ns.inputs[i]
              /\ configs[i].toml = Node(ns.inputs[i]).text
              /\ configs[i].indent = ns.indent
              /\ configs[i].keep_full_version = ns.keep_full_version
              /\ configs[i].max_supported_python = ns.max_supported_python

\* Two files with different texts, and options that differ from the defaults.
C10_Witness ==
    /\ pc = "configs"
    /\ Len(configs) = 2
    /\ configs[1].toml # configs[2].toml
    /\ configs[1].pyproject_toml # configs[2].pyproject_toml
    /\ ns.indent # DEFAULT_INDENT
    /\ ns.keep_full_version
    /\ ns.max_supported_python # DEFAULT_MAX_SUPPORTED_PYTHON

====
